---- MODULE Spec2Model ----
(***************************************************************************)
(* A model of the notifier's caching and notification-computation layer:   *)
(* the fetch-cache bridge try_cache (database/drivers/base.py), the digest *)
(* computation get_new_posts_for_user (database.py) over the storage       *)
(* driver's tables, and the cadence tasks (tasks.py).                      *)
(***************************************************************************)
EXTENDS Integers, Sequences, FiniteSets, TLC

VARIABLES
    cache,        \* bridge: the cached value the store callable writes
    call,         \* bridge: arguments of the last try_cache call
    cachePre,     \* bridge: the cached value when the last call started
    storeArgs,    \* bridge: the values store was called with in the last call
    outcome,      \* bridge: how the last call ended
    posts,        \* driver: the stored posts (append-only)
    subs,         \* driver: each user's subscriptions (manual and automatic)
    overrides,    \* driver: the global overrides, keyed by wiki id
    digest,       \* the NewPostsInfo the last get_new_posts_for_user returned
    frequency,    \* driver: each user's cadence ("none": no config stored)
    base,         \* driver: each user's user_base_notified
    lastNotified, \* driver: each user's stored last-notified time (-1: none)
    now,          \* the wall clock
    fired,        \* scheduler: the cadence of the last firing
    loaded,       \* scheduler: the users the last firing loaded, in order
    events,       \* scheduler: what the last firing did, in order
    lastPre,      \* scheduler: lastNotified when the last firing started
    lastFailed,   \* scheduler: each user's last failed digest and its cadence
    due,          \* scheduler: the failed posts the last firing had to retry
    builtin_queries_dir, \* query files: the text of each file ("absent": none)
    query_cache,  \* query cache: each name's cached definition
    lookups,      \* query cache: lookups of each name since the last clear
    reads,        \* query cache: reads of the directory for each name since
                  \*   the last clear
    firstDef,     \* query cache: the definition each name's first lookup
                  \*   since the last clear left in the cache
    lastQuery,    \* query cache: the last operation and how it ended
    cleared,      \* query cache: the cache and the directory at the last clear
    callers,      \* query cache: each concurrent caller's lookup in progress
    step,         \* query cache: the last step a concurrent caller took
    firings,      \* scheduler: the firings that coincide, each one's progress
    deliveries    \* scheduler: what the coinciding firings delivered, as
                  \*   <<cadence, user, post>>

bridgeVars == <<cache, call, cachePre, storeArgs, outcome>>

storeVars == <<posts, subs, overrides>>

configVars == <<frequency, base, lastNotified>>

schedVars == <<now, fired, loaded, events, lastPre, lastFailed, due>>

queryVars == <<builtin_queries_dir, query_cache, lookups, reads, firstDef,
               lastQuery, cleared, callers, step>>

coincideVars == <<firings, deliveries>>

\* What the calls taken one at a time record.
callVars == <<lookups, reads, firstDef, lastQuery, cleared>>

vars == <<cache, call, cachePre, storeArgs, outcome,
          posts, subs, overrides, digest,
          frequency, base, lastNotified,
          now, fired, loaded, events, lastPre, lastFailed, due,
          builtin_queries_dir, query_cache, lookups, reads, firstDef,
          lastQuery, cleared, callers, step, firings, deliveries>>

(***************************************************************************)
(* try_cache                                                               *)
(***************************************************************************)

\* Python values that get may return and do_not_store may be set to.
\* "None" is Python's None, the default of do_not_store.
Values == {"None", "cfgA", "cfgB"}

\* Exception classes get or store may raise, with Python's built-in
\* inheritance: ConnectionError < OSError < Exception, ValueError < Exception.
ExcClasses == {"Exception", "OSError", "ConnectionError", "ValueError"}

Base(c) ==
    CASE c = "ConnectionError" -> "OSError"
      [] c = "OSError" -> "Exception"
      [] c = "ValueError" -> "Exception"
      [] OTHER -> "Exception"

RECURSIVE IsSubclass(_, _)
IsSubclass(c, d) ==
    \/ c = d
    \/ c # "Exception" /\ IsSubclass(Base(c), d)

\* What a call of get does: return a value or raise an exception.
GetOutcomes ==
    [kind : {"return"}, value : Values, exc : {"none"}]
        \cup [kind : {"raise"}, value : {"None"}, exc : ExcClasses]

\* What a call of store does: write the cache, or raise.
StoreOutcomes == {"ok", "OSError", "ValueError"}

\* The catch argument: None (the default) or a tuple of exception classes.
CatchArgs == [isNone : {TRUE}, classes : {{}}]
                 \cup [isNone : {FALSE}, classes : SUBSET ExcClasses]

\* if catch is None: catch = tuple()
CatchTuple(catch) == IF catch.isNone THEN {} ELSE catch.classes

ExceptMatchesAll(catch, exc) == TRUE

\* except catch as error: the clause matches an exception that is an instance
\* of one of the classes of the tuple, subclasses included.
ExceptMatches(catch, exc) ==
    \E c \in CatchTuple(catch) : IsSubclass(exc, c)

\* value = do_not_store; try: value = get() except catch: (value is kept)
ValueAfterTry(get, do_not_store) ==
    IF get.kind = "return" THEN get.value ELSE do_not_store

ShouldStoreAlways(value, do_not_store) == TRUE

ShouldStoreNotNone(value, do_not_store) == value # "None"

\* if value != do_not_store: store(value)
ShouldStore(value, do_not_store) == value # do_not_store

StoreErrorLeavesUnlessCaught(catch, exc) == ~ExceptMatches(catch, exc)

\* store(value) is called after the try statement, outside the reach of its
\* except clause: whatever store raises leaves try_cache.
StoreErrorLeaves(catch, exc) == TRUE

NoOutcome == [kind |-> "none", exc |-> "none", from |-> "none"]
Returned == [kind |-> "returned", exc |-> "none", from |-> "none"]
Raised(exc, from) == [kind |-> "raised", exc |-> exc, from |-> from]

\* One whole call try_cache(get=, store=, do_not_store=, catch=).
try_cache(get, store, do_not_store, catch) ==
    /\ call' = [get |-> get, store |-> store,
                do_not_store |-> do_not_store, catch |-> catch]
    /\ cachePre' = cache
    /\ IF get.kind = "raise" /\ ~ExceptMatches(catch, get.exc)
       THEN \* the exception leaves the try statement: nothing below runs
            /\ outcome' = Raised(get.exc, "get")
            /\ storeArgs' = <<>>
            /\ cache' = cache
       ELSE LET value == ValueAfterTry(get, do_not_store) IN
            IF ShouldStore(value, do_not_store)
            THEN /\ storeArgs' = <<value>>
                 /\ IF store = "ok"
                    THEN cache' = value /\ outcome' = Returned
                    ELSE /\ cache' = cache
                         /\ outcome' = IF StoreErrorLeaves(catch, store)
                                       THEN Raised(store, "store")
                                       ELSE Returned
            ELSE /\ storeArgs' = <<>>
                 /\ cache' = cache
                 /\ outcome' = Returned

InitBridge ==
    /\ cache = "None"
    /\ call = [get |-> [kind |-> "return", value |-> "None", exc |-> "none"],
               store |-> "ok", do_not_store |-> "None",
               catch |-> [isNone |-> TRUE, classes |-> {}]]
    /\ cachePre = cache
    /\ storeArgs = <<>>
    /\ outcome = NoOutcome

BridgeCall ==
    \E get \in GetOutcomes, store \in StoreOutcomes,
       do_not_store \in Values, catch \in CatchArgs :
        try_cache(get, store, do_not_store, catch)

(***************************************************************************)
(* The storage driver's tables and the digest computation                  *)
(***************************************************************************)

Users == {"U", "V"}

\* ThreadInfo rows: two threads, each in a wiki of its own.
Threads == {"T", "T2"}

ThreadInfo(t) ==
    IF t = "T"
    THEN [id |-> "T", title |-> "news", wiki_id |-> "W", category_id |-> "C"]
    ELSE [id |-> "T2", title |-> "chat", wiki_id |-> "W2", category_id |-> "C2"]

Wikis == {"W", "W2"}

\* RawPost rows that the remote may deliver: P1 is a top-level post of T,
\* P2 a reply to P1, P3 a top-level post of T2.
PostUniverse ==
    { [id |-> "P1", thread_id |-> "T", parent_post_id |-> "null",
       posted_timestamp |-> 100],
      [id |-> "P2", thread_id |-> "T", parent_post_id |-> "P1",
       posted_timestamp |-> 150],
      [id |-> "P3", thread_id |-> "T2", parent_post_id |-> "null",
       posted_timestamp |-> 150] }

Post(id) == CHOOSE p \in PostUniverse : p.id = id

Timestamps == {0, 100, 150, 200}

\* Subscription: thread_id, post_id (or null), sub (+1 or -1). The ones
\* users make: to T2, and to or from T and its posts.
SubscriptionUniverse ==
    { [thread_id |-> "T2", post_id |-> "null", sub |-> 1] }
    \cup { [thread_id |-> "T", post_id |-> p, sub |-> d] :
               p \in {"null", "P1", "P2"}, d \in {-1, 1} }

\* GlobalOverrideConfig: action and the optional matchers (null: absent).
\* thread_title_matches is a pattern; a pattern is modelled by its name and
\* PatternMatches says which titles it matches.
RuleUniverse ==
    { [action |-> "mute_thread", category_id_is |-> "null",
       thread_id_is |-> "T", thread_title_matches |-> "null"],
      [action |-> "mute", category_id_is |-> "C",
       thread_id_is |-> "null", thread_title_matches |-> "null"],
      [action |-> "mute", category_id_is |-> "null",
       thread_id_is |-> "null", thread_title_matches |-> "^new"],
      [action |-> "mute_thread", category_id_is |-> "C2",
       thread_id_is |-> "T", thread_title_matches |-> "null"] }

PatternMatches(pattern, title) == pattern = "^new" /\ title = "news"

\* The number of subscription rows stored over all users.
SubRows(s) == LET RECURSIVE Sum(_)
                  Sum(us) == IF us = {} THEN 0
                             ELSE LET u == CHOOSE x \in us : TRUE
                                  IN Cardinality(s[u]) + Sum(us \ {u})
              IN Sum(Users)

MaxSubRows == 2

\* GlobalOverridesConfig values stored at once: a list per wiki.
OverrideConfigs ==
    { [w \in Wikis |-> {}] }
    \cup { [w \in Wikis |-> IF w = "W" THEN {r} ELSE {}] : r \in RuleUniverse }
    \cup { [w \in Wikis |-> IF w = "W2" THEN {r} ELSE {}] :
               r \in {x \in RuleUniverse : x.category_id_is = "null"
                                           /\ x.thread_id_is = "T"} }

NoDigest ==
    [called |-> FALSE, user_id |-> "none", since |-> 0, until |-> 0,
     a |-> <<>>, b |-> <<>>, thread_posts |-> <<>>, post_replies |-> <<>>]

InitStore ==
    /\ posts = {}
    /\ subs = [u \in Users |-> {}]
    /\ overrides = [w \in Wikis |-> {}]
    /\ digest = NoDigest

\* store_post: append-only; the post's parent, when it has one, is stored.
store_post(post) ==
    /\ post \notin posts
    /\ post.parent_post_id # "null" =>
           \E q \in posts : q.id = post.parent_post_id
    /\ posts' = posts \cup {post}
    /\ digest' = NoDigest
    /\ UNCHANGED <<subs, overrides>>

\* store_manual_sub: one more subscription record of one user.
store_manual_sub(user_id, subscription) ==
    /\ subscription \notin subs[user_id]
    /\ SubRows(subs) < MaxSubRows
    /\ subs' = [subs EXCEPT ![user_id] = @ \cup {subscription}]
    /\ digest' = NoDigest
    /\ UNCHANGED <<posts, overrides>>

\* store_global_overrides: full overwrite.
store_global_overrides(global_overrides) ==
    /\ global_overrides # overrides
    /\ overrides' = global_overrides
    /\ digest' = NoDigest
    /\ UNCHANGED <<posts, subs>>

\* A rule matches a thread when every matcher it states matches.
RuleMatches(rule, t) ==
    /\ rule.category_id_is # "null" =>
           rule.category_id_is = ThreadInfo(t).category_id
    /\ rule.thread_id_is # "null" => rule.thread_id_is = t
    /\ rule.thread_title_matches # "null" =>
           PatternMatches(rule.thread_title_matches, ThreadInfo(t).title)

MutedNever(ov, t) == FALSE

\* A thread is muted when a rule stored for its wiki matches it.
Muted(ov, t) == \E rule \in ov[ThreadInfo(t).wiki_id] : RuleMatches(rule, t)

\* The range [since, until) of the driver contract
\* (timestamp_range: Tuple[int, int]).
InWindow(post, since, until) ==
    since <= post.posted_timestamp /\ post.posted_timestamp < until

\* The one time the implementation binds into its queries:
\* {"user_id": user_id, "search_timestamp": search_timestamp}; posts made
\* since that time.
Since(post, search_timestamp) == search_timestamp <= post.posted_timestamp

Has(ss, t, p, d) == [thread_id |-> t, post_id |-> p, sub |-> d] \in ss

UnsubscribedNever(ss, post) == FALSE

\* A post-level -1 for the post itself removes it from the digest.
Unsubscribed(ss, post) == Has(ss, post.thread_id, post.id, -1)

\* The user is subscribed to the thread: a thread-level +1 and no
\* thread-level -1.
SubscribedThread(ss, t) == Has(ss, t, "null", 1) /\ ~Has(ss, t, "null", -1)

\* The user is subscribed to the post: a post-level +1 and no post-level -1.
SubscribedPost(ss, t, p) == Has(ss, t, p, 1) /\ ~Has(ss, t, p, -1)

\* Query A: the posts made since search_timestamp in threads the user is
\* subscribed to.
PostsInSubscribedThreads(ps, ss, ov, search_timestamp) ==
    { p \in ps : /\ Since(p, search_timestamp)
                 /\ ~Muted(ov, p.thread_id)
                 /\ SubscribedThread(ss, p.thread_id)
                 /\ ~Unsubscribed(ss, p) }

\* Query B: the posts made since search_timestamp that are direct replies to
\* a post the user is subscribed to.
RepliesToSubscribedPosts(ps, ss, ov, search_timestamp) ==
    { p \in ps : /\ Since(p, search_timestamp)
                 /\ ~Muted(ov, p.thread_id)
                 /\ p.parent_post_id # "null"
                 /\ SubscribedPost(ss, p.thread_id, p.parent_post_id)
                 /\ ~Unsubscribed(ss, p) }

\* fetchall(): the rows of a query, in the order the engine yields them.
Fetchall(rows) ==
    { s \in [1..Cardinality(rows) -> rows] :
          \A i, j \in DOMAIN s : i # j => s[i] # s[j] }

Ids(rows) == { rows[i].id : i \in DOMAIN rows }

RemoveDuplicatesNone(thread_posts, post_replies) == thread_posts

RemoveDuplicatesInverted(thread_posts, post_replies) ==
    LET post_replies_ids == Ids(post_replies)
        Keep(thread_post) == thread_post.id \in post_replies_ids
    IN SelectSeq(thread_posts, Keep)

RemoveDuplicatesAndParents(thread_posts, post_replies) ==
    LET post_replies_ids == Ids(post_replies)
        parent_ids == { post_replies[i].parent_post_id :
                            i \in DOMAIN post_replies }
        Keep(thread_post) == /\ thread_post.id \notin post_replies_ids
                             /\ thread_post.id \notin parent_ids
    IN SelectSeq(thread_posts, Keep)

\* Remove duplicate posts - keep the ones that are post replies.
RemoveDuplicates(thread_posts, post_replies) ==
    LET post_replies_ids == Ids(post_replies)
        Keep(thread_post) == thread_post.id \notin post_replies_ids
    IN SelectSeq(thread_posts, Keep)

\* get_new_posts_for_user(user_id, search_timestamp), called for the range
\* [since, until) of the driver contract: search_timestamp = since is the
\* only time the implementation takes; until is recorded, not passed.
get_new_posts_for_user(user_id, since, until) ==
    /\ \E thread_posts \in Fetchall(PostsInSubscribedThreads(
                              posts, subs[user_id], overrides, since)),
          post_replies \in Fetchall(RepliesToSubscribedPosts(
                              posts, subs[user_id], overrides, since)) :
          digest' = [called |-> TRUE, user_id |-> user_id,
                     since |-> since, until |-> until,
                     a |-> thread_posts, b |-> post_replies,
                     thread_posts |->
                         RemoveDuplicates(thread_posts, post_replies),
                     post_replies |-> post_replies]
    /\ UNCHANGED <<posts, subs, overrides>>

(***************************************************************************)
(* User configs and the cadence tasks                                      *)
(***************************************************************************)

Cadences == {"hourly", "daily", "weekly", "monthly"}

Sub(t, p, d) == [thread_id |-> t, post_id |-> p, sub |-> d]

\* RawUserConfig as the remote delivers it; present = FALSE: the user has no
\* config on the remote.
RawConfig(f, b, ss, us) ==
    [present |-> TRUE, frequency |-> f, user_base_notified |-> b,
     subscriptions |-> ss, unsubscriptions |-> us]

NoConfig ==
    [present |-> FALSE, frequency |-> "none", user_base_notified |-> 0,
     subscriptions |-> {}, unsubscriptions |-> {}]

\* The lists of RawUserConfig a sync may deliver.
UserConfigLists ==
    { [u \in Users |-> IF u = "U" THEN cu ELSE cv] :
          cu \in { RawConfig("hourly", 0, {Sub("T", "null", 1)}, {}),
                   RawConfig("daily", 0, {Sub("T", "null", 1)}, {}),
                   RawConfig("hourly", 100, {Sub("T", "null", 1)},
                             {Sub("T", "P2", -1)}) },
          cv \in { RawConfig("hourly", 0,
                             {Sub("T", "null", 1), Sub("T", "P1", 1)}, {}) } }

\* What the fetch of the user configs does: deliver a list, or fail with an
\* error the bridge catches.
ConfigFetches ==
    { [ok |-> TRUE, value |-> c] : c \in UserConfigLists }
    \cup { [ok |-> FALSE, value |-> [u \in Users |-> NoConfig]] }

InitConfig ==
    /\ frequency = [u \in Users |-> "none"]
    /\ base = [u \in Users |-> 0]
    /\ lastNotified = [u \in Users |-> -1]

NoFailure ==
    [cadence |-> "none", ids |-> {}, base |-> 0, subs |-> {},
     overrides |-> [w \in Wikis |-> {}]]

NothingDue ==
    [ids |-> {}, base |-> 0, subs |-> {}, overrides |-> [w \in Wikis |-> {}]]

\* What the fetch of the global overrides does: deliver a config, or fail
\* with an error the bridge catches.
OverrideFetches ==
    { [ok |-> FALSE, value |-> [w \in Wikis |-> {}]],
      [ok |-> TRUE, value |-> [w \in Wikis |-> {}]],
      [ok |-> TRUE,
       value |-> [w \in Wikis |->
                     IF w = "W"
                     THEN {[action |-> "mute_thread",
                            category_id_is |-> "null", thread_id_is |-> "T",
                            thread_title_matches |-> "null"]}
                     ELSE {}]] }

InitSched ==
    /\ now = 150
    /\ fired = "none"
    /\ loaded = <<>>
    /\ events = <<>>
    /\ lastPre = [u \in Users |-> -1]
    /\ lastFailed = [u \in Users |-> NoFailure]
    /\ due = [u \in Users |-> NothingDue]

\* store_user_configs: full overwrite of the user configs from the remote's
\* list; the stored last-notified times are not part of it.
StoredConfigs(user_configs) ==
    [frequency |-> [u \in Users |-> user_configs[u].frequency],
     base |-> [u \in Users |-> user_configs[u].user_base_notified],
     subs |-> [u \in Users |-> user_configs[u].subscriptions
                                   \cup user_configs[u].unsubscriptions]]

KeptConfigs == [frequency |-> frequency, base |-> base, subs |-> subs]

LastNotifiedTimestampBase(last, b, u) == b[u]

\* CachedUserConfig.last_notified_timestamp: the stored time, or the user's
\* base time while none is stored.
LastNotifiedTimestamp(last, b, u) == IF last[u] < 0 THEN b[u] ELSE last[u]

\* get_user_configs(frequency): the users whose cadence matches.
UsersOf(freq, cadence) == { u \in Users : freq[u] = cadence }

\* store_user_last_notified(user_id, last_notified_timestamp)
StoreLastNotified(last, user_id, last_notified_timestamp) ==
    [last EXCEPT ![user_id] = last_notified_timestamp]

\* The time of the most recent post of a digest.
MostRecent(ps) ==
    CHOOSE t \in {p.posted_timestamp : p \in ps} :
        \A p \in ps : p.posted_timestamp <= t

RECURSIVE OneOrder(_)
OneOrder(rows) ==
    IF rows = {} THEN <<>>
    ELSE LET row == CHOOSE r \in rows : TRUE
         IN <<row>> \o OneOrder(rows \ {row})

\* The digest of one user since search_timestamp: both queries and the
\* dedup of get_new_posts_for_user, as the set of the posts of its two lists.
DigestPosts(ps, ss, ov, search_timestamp) ==
    LET thread_posts ==
            OneOrder(PostsInSubscribedThreads(ps, ss, ov, search_timestamp))
        post_replies ==
            OneOrder(RepliesToSubscribedPosts(ps, ss, ov, search_timestamp))
        kept == RemoveDuplicates(thread_posts, post_replies)
    IN {kept[i] : i \in DOMAIN kept}
           \cup {post_replies[i] : i \in DOMAIN post_replies}

Event(op, u, ok, ts, ids) ==
    [op |-> op, user_id |-> u, ok |-> ok, ts |-> ts, ids |-> ids]

\* The failed digest of a user, with the config and overrides it was
\* computed from.
Failure(cadence, ids, cfg, u, ov) ==
    [cadence |-> cadence, ids |-> ids, base |-> cfg.base[u],
     subs |-> cfg.subs[u], overrides |-> ov]

AfterFailureRecord(st, u, cadence, ids, cfg, ov) ==
    [st EXCEPT !.events = Append(Append(@,
                              Event("deliver", u, FALSE, 0, ids)),
                              Event("store_user_last_notified", u, TRUE,
                                    MostRecent({Post(i) : i \in ids}), {})),
               !.last = StoreLastNotified(@, u,
                                    MostRecent({Post(i) : i \in ids})),
               !.failed[u] = Failure(cadence, ids, cfg, u, ov)]

\* Delivery failed: reported for the user; the loop goes on and nothing is
\* recorded.
AfterFailure(st, u, cadence, ids, cfg, ov) ==
    [st EXCEPT !.events = Append(@, Event("deliver", u, FALSE, 0, ids)),
               !.failed[u] = Failure(cadence, ids, cfg, u, ov)]

AfterSuccessNoRecord(st, u, t, ids) ==
    [st EXCEPT !.events = Append(@, Event("deliver", u, TRUE, 0, ids)),
               !.failed[u] = NoFailure]

\* Delivery succeeded: the time of the most recent post is recorded.
AfterSuccess(st, u, t, ids) ==
    [st EXCEPT !.events = Append(Append(@,
                              Event("deliver", u, TRUE, 0, ids)),
                              Event("store_user_last_notified", u, TRUE, t,
                                    {})),
               !.last = StoreLastNotified(@, u, t),
               !.failed[u] = NoFailure]

\* One pass of the per-user loop: the digest of the user since the loaded
\* last_notified_timestamp, its delivery, and the record of a success. A
\* user with nothing new gets no message.
ProcessUser(st, u, cadence, cfg, ps, ov, delivered) ==
    LET since == LastNotifiedTimestamp(st.loadedLast, cfg.base, u)
        new == DigestPosts(ps, cfg.subs[u], ov, since)
        ids == {p.id : p \in new}
        st1 == [st EXCEPT !.events =
                              Append(@, Event("digest", u, TRUE, since, ids))]
    IN IF new = {}
       THEN [st1 EXCEPT !.failed[u] = NoFailure]
       ELSE IF delivered
            THEN AfterSuccess(st1, u, MostRecent(new), ids)
            ELSE AfterFailure(st1, u, cadence, ids, cfg, ov)

RECURSIVE ProcessUsers(_, _, _, _, _, _, _, _)
ProcessUsers(st, users, i, cadence, cfg, ps, ov, delivery) ==
    IF i > Len(users)
    THEN st
    ELSE ProcessUsers(
             ProcessUser(st, users[i], cadence, cfg, ps, ov,
                         delivery[users[i]]),
             users, i + 1, cadence, cfg, ps, ov, delivery)

\* The posts a refresh may find: nothing new, or every post posted by now
\* that is not stored yet.
NewPostSets ==
    { {}, {p \in PostUniverse \ posts : p.posted_timestamp <= now} }

\* The calls execute() starts with, in the order of its statements:
\* get_new_posts() where the task has it, then get_users().
FiringStart(refreshPosts, newPosts) ==
    (IF refreshPosts
     THEN <<Event("get_new_posts", "none", TRUE, 0, {p.id : p \in newPosts})>>
     ELSE <<>>)
        \o <<Event("get_users", "none", TRUE, 0, {})>>

\* One firing of a task: the refresh (the post refresh for Hourly only; the
\* user configs through try_cache, kept when the fetch fails), get_users,
\* and the per-user loop.
Execute(cadence, refreshPosts) ==
    \E newPosts \in IF refreshPosts THEN NewPostSets ELSE {{}},
       fetched \in ConfigFetches, fetchedOv \in OverrideFetches :
    \E cfg \in {IF fetched.ok THEN StoredConfigs(fetched.value)
                ELSE KeptConfigs},
       ov \in {IF fetchedOv.ok THEN fetchedOv.value ELSE overrides} :
    \E users \in Fetchall(UsersOf(cfg.frequency, cadence)) :
    \E delivery \in [UsersOf(cfg.frequency, cadence) -> BOOLEAN] :
    \E st \in {ProcessUsers([events |-> FiringStart(refreshPosts, newPosts),
                             last |-> lastNotified,
                             loadedLast |-> lastNotified,
                             failed |-> lastFailed],
                            users, 1, cadence, cfg, posts \cup newPosts,
                            ov, delivery)} :
        /\ posts' = posts \cup newPosts
        /\ frequency' = cfg.frequency
        /\ base' = cfg.base
        /\ subs' = cfg.subs
        /\ overrides' = ov
        /\ lastNotified' = st.last
        /\ fired' = cadence
        /\ loaded' = users
        /\ events' = st.events
        /\ lastPre' = lastNotified
        /\ lastFailed' = st.failed
        /\ due' = [u \in Users |->
                      IF lastFailed[u].cadence = cadence
                      THEN [ids |-> lastFailed[u].ids,
                            base |-> lastFailed[u].base,
                            subs |-> lastFailed[u].subs,
                            overrides |-> lastFailed[u].overrides]
                      ELSE NothingDue]
        /\ UNCHANGED now

\* Hourly.execute: get_new_posts(); users = get_users()
Hourly == Execute("hourly", TRUE)

DailyRefreshing == Execute("daily", TRUE)

\* Daily.execute: users = get_users()
Daily == Execute("daily", FALSE)

\* Weekly.execute: users = get_users()
Weekly == Execute("weekly", FALSE)

\* Monthly.execute: users = get_users()
Monthly == Execute("monthly", FALSE)

\* The wall clock moves on between firings.
Tick ==
    /\ \E t \in Timestamps : t > now /\ now' = t
    /\ UNCHANGED <<posts, subs, overrides, frequency, base, lastNotified,
                   fired, loaded, events, lastPre, lastFailed, due>>

(***************************************************************************)
(* DatabaseWithSqlFileCache: the cache of query files                      *)
(***************************************************************************)

QueryNames == {"q", "r"}

\* The files builtin_queries_dir may hold, each name as path.name.split(".")
\* yields it: q.sql and q.script.sql. No file is ever named after "r".
QueryFiles == { <<"q", "sql">>, <<"q", "script", "sql">> }

QueryTexts == {"v1", "v2"}

\* The states of the directory: q.script.sql, when there, holds "v1".
Directories ==
    { d \in [QueryFiles -> QueryTexts \cup {"absent"}] :
          d[<<"q", "script", "sql">>] # "v2" }

MaxLookups == 2

NoEntry == [cached |-> FALSE, script |-> FALSE, query |-> "none"]

\* query_path.name.endswith(".script.sql")
IsScript(path) ==
    /\ Len(path) >= 3
    /\ path[Len(path) - 1] = "script"
    /\ path[Len(path)] = "sql"

\* {"script": ..., "query": query}
Entry(path, query) ==
    [cached |-> TRUE, script |-> IsScript(path), query |-> query]

MatchingAny(dir, query_name) == { path \in QueryFiles : dir[path] # "absent" }

\* The paths of iterdir() with path.name.split(".")[0] == query_name; next()
\* takes the first of them in the order iterdir() yields, which is arbitrary.
Matching(dir, query_name) ==
    { path \in QueryFiles : dir[path] # "absent" /\ path[1] = query_name }

InCacheNever(qc, query_name) == FALSE

\* query_name in self.query_cache
InCache(qc, query_name) == qc[query_name].cached

ClearedNothing(qc) == qc

\* self.query_cache = {}
Cleared(qc) == [n \in QueryNames |-> NoEntry]

NoQuery ==
    [op |-> "none", query_name |-> "none", raised |-> "none",
     read |-> FALSE, pre |-> [n \in QueryNames |-> NoEntry],
     dir |-> [f \in QueryFiles |-> "absent"], first |-> FALSE]

QueryDone(op, query_name, raised, read, first) ==
    [op |-> op, query_name |-> query_name, raised |-> raised, read |-> read,
     pre |-> query_cache, dir |-> builtin_queries_dir, first |-> first]

Callers == {"c1", "c2"}

\* A caller between lookups: pc is its place in cache_named_query and
\* read_query_file; same_dict tells whether self.query_cache is still the
\* dict object it was when the lookup started; held is the definition the
\* caller retrieved last.
Idle ==
    [pc |-> "idle", query_name |-> "none", path |-> <<>>, query |-> "none",
     same_dict |-> TRUE, raised |-> "none", held |-> NoEntry]

\* The call is over: its locals are gone.
Over(raised, held) == [Idle EXCEPT !.raised = raised, !.held = held]

NoStep == [op |-> "none", caller |-> "none", held |-> [c \in Callers |-> NoEntry]]

Step(op, c) == [op |-> op, caller |-> c, held |-> [d \in Callers |-> callers[d].held]]

CachePutCaptured(qc, same_dict, query_name, entry) ==
    IF same_dict THEN [qc EXCEPT ![query_name] = entry] ELSE qc

\* self.query_cache[query_name] = {...}: the attribute is read when the
\* statement runs, so the entry goes into the dict bound at that time.
CachePut(qc, same_dict, query_name, entry) ==
    [qc EXCEPT ![query_name] = entry]

InitQueries ==
    /\ builtin_queries_dir =
           [f \in QueryFiles |-> IF f = <<"q", "sql">> THEN "v1" ELSE "absent"]
    /\ query_cache = Cleared([n \in QueryNames |-> NoEntry])
    /\ lookups = [n \in QueryNames |-> 0]
    /\ reads = [n \in QueryNames |-> 0]
    /\ firstDef = [n \in QueryNames |-> NoEntry]
    /\ lastQuery = NoQuery
    /\ cleared = [cache |-> query_cache, dir |-> builtin_queries_dir]
    /\ callers = [c \in Callers |-> Idle]
    /\ step = NoStep

\* clear_query_file_cache
clear_query_file_cache ==
    /\ query_cache' = Cleared(query_cache)
    /\ lookups' = [n \in QueryNames |-> 0]
    /\ reads' = [n \in QueryNames |-> 0]
    /\ firstDef' = [n \in QueryNames |-> NoEntry]
    /\ lastQuery' = QueryDone("clear", "none", "none", FALSE, FALSE)
    /\ cleared' = [cache |-> query_cache, dir |-> builtin_queries_dir]
    /\ UNCHANGED <<builtin_queries_dir, callers, step>>

\* cache_named_query(query_name), with the call of read_query_file it makes
\* when the name is not in the cache.
cache_named_query(query_name) ==
    /\ lookups[query_name] < MaxLookups
    /\ lookups' = [lookups EXCEPT ![query_name] = @ + 1]
    /\ UNCHANGED <<builtin_queries_dir, cleared, callers, step>>
    /\ IF InCache(query_cache, query_name)
       THEN /\ query_cache' = query_cache
            /\ reads' = reads
            /\ lastQuery' = QueryDone("lookup", query_name, "none", FALSE,
                                      lookups[query_name] = 0)
       ELSE /\ reads' = [reads EXCEPT ![query_name] = @ + 1]
            /\ IF Matching(builtin_queries_dir, query_name) = {}
               THEN \* raise ValueError(...) from stop
                    /\ query_cache' = query_cache
                    /\ lastQuery' = QueryDone("lookup", query_name,
                                              "ValueError", TRUE,
                                              lookups[query_name] = 0)
               ELSE /\ \E query_path \in
                              Matching(builtin_queries_dir, query_name) :
                           query_cache' =
                               CachePut(query_cache, TRUE, query_name,
                                        Entry(query_path,
                                              builtin_queries_dir[query_path]))
                    /\ lastQuery' = QueryDone("lookup", query_name, "none",
                                              TRUE, lookups[query_name] = 0)
    /\ firstDef' = IF lookups[query_name] = 0
                   THEN [firstDef EXCEPT ![query_name] =
                             query_cache'[query_name]]
                   ELSE firstDef

\* A query file is written, created, or removed (a rename removes one file
\* and creates another) outside the process.
EditQueryFile ==
    /\ \E d \in Directories :
           /\ d # builtin_queries_dir
           /\ \E f \in QueryFiles :
                  \A g \in QueryFiles \ {f} : d[g] = builtin_queries_dir[g]
           /\ builtin_queries_dir' = d
    /\ lastQuery' = QueryDone("edit", "none", "none", FALSE, FALSE)
    /\ UNCHANGED <<query_cache, lookups, reads, firstDef, cleared, callers,
                   step>>

\* The same calls made by concurrent callers, one statement at a time.

\* cache_named_query: if query_name not in self.query_cache
LookupStart(c, query_name) ==
    /\ callers[c].pc = "idle"
    /\ callers' = [callers EXCEPT ![c] =
           [@ EXCEPT !.pc = IF InCache(query_cache, query_name)
                            THEN "done" ELSE "scan",
                     !.query_name = query_name, !.path = <<>>,
                     !.query = "none", !.same_dict = TRUE,
                     !.raised = "none"]]
    /\ step' = Step("start", c)
    /\ UNCHANGED <<query_cache, builtin_queries_dir>>

\* read_query_file: query_path = next(...), or ValueError
LookupScan(c) ==
    /\ callers[c].pc = "scan"
    /\ IF Matching(builtin_queries_dir, callers[c].query_name) = {}
       THEN callers' = [callers EXCEPT ![c] =
                Over("ValueError", @.held)]
       ELSE \E query_path \in
                   Matching(builtin_queries_dir, callers[c].query_name) :
                callers' = [callers EXCEPT ![c] =
                    [@ EXCEPT !.pc = "open", !.path = query_path]]
    /\ step' = Step("scan", c)
    /\ UNCHANGED <<query_cache, builtin_queries_dir>>

\* read_query_file: with query_path.open() as file: query = file.read();
\* open() raises FileNotFoundError when the file is gone by now.
LookupRead(c) ==
    /\ callers[c].pc = "open"
    /\ callers' = [callers EXCEPT ![c] =
           IF builtin_queries_dir[callers[c].path] = "absent"
           THEN Over("FileNotFoundError", @.held)
           ELSE [@ EXCEPT !.pc = "store",
                          !.query = builtin_queries_dir[callers[c].path]]]
    /\ step' = Step("read", c)
    /\ UNCHANGED <<query_cache, builtin_queries_dir>>

\* read_query_file: self.query_cache[query_name] = {...}, and the return
LookupStore(c) ==
    /\ callers[c].pc = "store"
    /\ query_cache' = CachePut(query_cache, callers[c].same_dict,
                               callers[c].query_name,
                               Entry(callers[c].path, callers[c].query))
    /\ callers' = [callers EXCEPT ![c] = [@ EXCEPT !.pc = "done"]]
    /\ step' = Step("store", c)
    /\ UNCHANGED builtin_queries_dir

\* The caller takes the definition its lookup made sure of:
\* self.query_cache[query_name], a KeyError when the entry is not there.
Retrieve(c) ==
    /\ callers[c].pc = "done"
    /\ callers' = [callers EXCEPT ![c] =
           IF InCache(query_cache, callers[c].query_name)
           THEN Over("none", query_cache[callers[c].query_name])
           ELSE Over("KeyError", @.held)]
    /\ step' = Step("retrieve", c)
    /\ UNCHANGED <<query_cache, builtin_queries_dir>>

\* clear_query_file_cache while lookups are under way: one assignment.
ClearInFlight ==
    /\ query_cache' = Cleared(query_cache)
    /\ callers' = [c \in Callers |->
                      IF callers[c].pc \in {"scan", "open", "store"}
                      THEN [callers[c] EXCEPT !.same_dict = FALSE]
                      ELSE callers[c]]
    /\ step' = Step("clear", "none")
    /\ UNCHANGED builtin_queries_dir

EditInFlight ==
    /\ \E d \in Directories :
           /\ d # builtin_queries_dir
           /\ \E f \in QueryFiles :
                  \A g \in QueryFiles \ {f} : d[g] = builtin_queries_dir[g]
           /\ builtin_queries_dir' = d
    /\ step' = Step("edit", "none")
    /\ UNCHANGED <<query_cache, callers>>

ClearQueryFileCache == clear_query_file_cache

CacheNamedQuery == \E query_name \in QueryNames : cache_named_query(query_name)

(***************************************************************************)
(* Firings of different cadences that coincide: the steps of execute(),    *)
(* each call of the driver one step                                        *)
(***************************************************************************)

\* Hourly ("0 * * * *") and Daily ("0 0 * * *") both fire at midnight.
Coinciding == {"hourly", "daily"}

NotFired ==
    [pc |-> "idle", users |-> <<>>, i |-> 0, last |-> 0, ids |-> {}]

InitCoincide ==
    /\ firings = [t \in Coinciding |-> NotFired]
    /\ deliveries = {}

\* The loop moves to the next user, or the firing is over.
NextUser(f) ==
    IF f.i < Len(f.users)
    THEN [f EXCEPT !.pc = "digest", !.i = @ + 1, !.ids = {}]
    ELSE [f EXCEPT !.pc = "done", !.ids = {}]

\* The trigger fires the task: execute() starts. Hourly starts with
\* get_new_posts(), the others with get_users().
Fire(t) ==
    /\ firings[t].pc = "idle"
    /\ firings' = [firings EXCEPT ![t] =
           [@ EXCEPT !.pc = IF t = "hourly" THEN "posts" ELSE "configs"]]
    /\ UNCHANGED <<posts, subs, overrides, frequency, base, lastNotified,
                   deliveries>>

\* get_new_posts(): the posts the refresh finds are stored.
RefreshPosts(t) ==
    /\ firings[t].pc = "posts"
    /\ \E newPosts \in NewPostSets : posts' = posts \cup newPosts
    /\ firings' = [firings EXCEPT ![t] = [@ EXCEPT !.pc = "configs"]]
    /\ UNCHANGED <<subs, overrides, frequency, base, lastNotified, deliveries>>

\* get_users(), first half: the user configs are fetched through try_cache
\* and stored, or kept when the fetch fails.
RefreshConfigs(t) ==
    /\ firings[t].pc = "configs"
    /\ \E fetched \in ConfigFetches :
       \E cfg \in {IF fetched.ok THEN StoredConfigs(fetched.value)
                   ELSE KeptConfigs} :
           /\ frequency' = cfg.frequency
           /\ base' = cfg.base
           /\ subs' = cfg.subs
    /\ firings' = [firings EXCEPT ![t] = [@ EXCEPT !.pc = "load"]]
    /\ UNCHANGED <<posts, overrides, lastNotified, deliveries>>

\* get_users(), second half: get_user_configs(frequency).
LoadUsers(t) ==
    /\ firings[t].pc = "load"
    /\ \E users \in Fetchall(UsersOf(frequency, t)) :
           firings' = [firings EXCEPT ![t] =
               NextUser([@ EXCEPT !.users = users, !.i = 0])]
    /\ UNCHANGED <<posts, subs, overrides, frequency, base, lastNotified,
                   deliveries>>

\* The digest of the user the loop is at, since the user's
\* last_notified_timestamp.
ComputeDigest(t) ==
    /\ firings[t].pc = "digest"
    /\ LET u == firings[t].users[firings[t].i]
           new == DigestPosts(posts, subs[u], overrides,
                              LastNotifiedTimestamp(lastNotified, base, u))
       IN firings' = [firings EXCEPT ![t] =
              IF new = {}
              THEN NextUser(@)
              ELSE [@ EXCEPT !.pc = "deliver",
                             !.ids = {p.id : p \in new},
                             !.last = MostRecent(new)]]
    /\ UNCHANGED <<posts, subs, overrides, frequency, base, lastNotified,
                   deliveries>>

\* The delivery collaborator reports success or failure.
Deliver(t) ==
    /\ firings[t].pc = "deliver"
    /\ LET u == firings[t].users[firings[t].i] IN
       \E ok \in BOOLEAN :
           IF ok
           THEN /\ deliveries' = deliveries \cup
                        { <<t, u, id>> : id \in firings[t].ids }
                /\ firings' = [firings EXCEPT ![t] =
                                  [@ EXCEPT !.pc = "record"]]
           ELSE /\ deliveries' = deliveries
                /\ firings' = [firings EXCEPT ![t] = NextUser(@)]
    /\ UNCHANGED <<posts, subs, overrides, frequency, base, lastNotified>>

\* store_user_last_notified, after the confirmed delivery.
RecordLastNotified(t) ==
    /\ firings[t].pc = "record"
    /\ lastNotified' =
           StoreLastNotified(lastNotified,
                             firings[t].users[firings[t].i], firings[t].last)
    /\ firings' = [firings EXCEPT ![t] = NextUser(@)]
    /\ UNCHANGED <<posts, subs, overrides, frequency, base, deliveries>>

StorePost == \E post \in PostUniverse : store_post(post)

StoreManualSub ==
    \E user_id \in Users, subscription \in SubscriptionUniverse :
        store_manual_sub(user_id, subscription)

StoreGlobalOverrides ==
    \E global_overrides \in OverrideConfigs :
        store_global_overrides(global_overrides)

GetNewPostsForUser ==
    \E user_id \in Users, since \in Timestamps, until \in Timestamps :
        since < until /\ get_new_posts_for_user(user_id, since, until)

Init ==
    /\ InitBridge
    /\ InitStore
    /\ InitConfig
    /\ InitSched
    /\ InitQueries
    /\ InitCoincide

NextBridge ==
    /\ BridgeCall
    /\ UNCHANGED <<posts, subs, overrides, digest>>
    /\ UNCHANGED <<configVars, schedVars, queryVars, coincideVars>>

SpecBridge == Init /\ [][NextBridge]_vars

NextDigest ==
    /\ \/ StorePost
       \/ StoreManualSub
       \/ StoreGlobalOverrides
       \/ GetNewPostsForUser
    /\ UNCHANGED <<bridgeVars, configVars, schedVars, queryVars,
                   coincideVars>>

SpecDigest == Init /\ [][NextDigest]_vars

NextSched ==
    /\ \/ Hourly
       \/ Daily
       \/ Weekly
       \/ Monthly
       \/ Tick
    /\ UNCHANGED <<bridgeVars, digest, queryVars, coincideVars>>

SpecSched == Init /\ [][NextSched]_vars

NextQueries ==
    /\ \/ CacheNamedQuery
       \/ ClearQueryFileCache
       \/ EditQueryFile
    /\ UNCHANGED <<bridgeVars, storeVars, digest, configVars, schedVars,
                   coincideVars>>

SpecQueries == Init /\ [][NextQueries]_vars

NextInFlight ==
    /\ \/ \E c \in Callers, query_name \in QueryNames :
              LookupStart(c, query_name)
       \/ \E c \in Callers : LookupScan(c)
       \/ \E c \in Callers : LookupRead(c)
       \/ \E c \in Callers : LookupStore(c)
       \/ \E c \in Callers : Retrieve(c)
       \/ ClearInFlight
       \/ EditInFlight
    /\ UNCHANGED <<bridgeVars, storeVars, digest, configVars, schedVars,
                   callVars, coincideVars>>

SpecInFlight == Init /\ [][NextInFlight]_vars

CoincideStep ==
    \/ \E t \in Coinciding : Fire(t)
    \/ \E t \in Coinciding : RefreshPosts(t)
    \/ \E t \in Coinciding : RefreshConfigs(t)
    \/ \E t \in Coinciding : LoadUsers(t)
    \/ \E t \in Coinciding : ComputeDigest(t)
    \/ \E t \in Coinciding : Deliver(t)
    \/ \E t \in Coinciding : RecordLastNotified(t)

NextCoincide ==
    /\ CoincideStep
    /\ UNCHANGED <<bridgeVars, digest, schedVars, queryVars>>

SpecCoincide == Init /\ [][NextCoincide]_vars

(***************************************************************************)
(* Properties of try_cache (checked under SpecBridge)                      *)
(***************************************************************************)

Called == outcome.kind # "none"

\* C1 (bridge fallback): when get raises an exception whose class is one of
\* the classes of catch, try_cache returns normally, store is not called and
\* the cached value is the one from before the call.
C1_BridgeFallback ==
    (Called /\ call.get.kind = "raise"
            /\ call.get.exc \in CatchTuple(call.catch))
        => /\ outcome = Returned
           /\ storeArgs = <<>>
           /\ cache = cachePre

C1_Witness ==
    /\ outcome = Returned
    /\ call.get.kind = "raise"
    /\ call.get.exc \in CatchTuple(call.catch)
    /\ call.do_not_store # "None"
    /\ cachePre \notin {"None", call.do_not_store}
    /\ cache = cachePre

\* C2 (bridge pass-through): store is called exactly once, with the value get
\* returned, exactly when get returns a value that differs from do_not_store;
\* otherwise (get returned do_not_store, or raised) store is not called.
C2_BridgePassThrough ==
    Called =>
        LET passes == call.get.kind = "return"
                          /\ call.get.value # call.do_not_store
        IN /\ passes => storeArgs = <<call.get.value>>
           /\ ~passes => storeArgs = <<>>

C2_Witness ==
    /\ Called
    /\ call.get.kind = "return"
    /\ call.get.value # call.do_not_store
    /\ call.get.value = "None"
    /\ storeArgs = <<"None">>
    /\ cache = "None"
    /\ cachePre # "None"

C2_WitnessSkip ==
    /\ Called
    /\ call.get.kind = "return"
    /\ call.get.value = call.do_not_store
    /\ call.get.value # "None"
    /\ storeArgs = <<>>

\* C3 as stated: when get raises an exception whose class is not one of the
\* classes of catch, the exception propagates, store is not called and the
\* cached value is unchanged.
C3_Original ==
    (Called /\ call.get.kind = "raise"
            /\ call.get.exc \notin CatchTuple(call.catch))
        => /\ outcome = Raised(call.get.exc, "get")
           /\ storeArgs = <<>>
           /\ cache = cachePre

\* C3 (amended): when get raises an exception whose class is neither one of
\* the classes of catch nor a subclass of one of them (in particular any
\* exception when catch is left at its default), the exception propagates
\* out of try_cache, store is not called and the cached value is unchanged.
C3_NoBlanketCatch ==
    (Called /\ call.get.kind = "raise"
            /\ \A c \in CatchTuple(call.catch) :
                   ~IsSubclass(call.get.exc, c))
        => /\ outcome = Raised(call.get.exc, "get")
           /\ storeArgs = <<>>
           /\ cache = cachePre

C3_Witness ==
    /\ outcome = Raised("ValueError", "get")
    /\ call.catch.classes = {"OSError"}
    /\ call.do_not_store = "None"
    /\ cachePre = "cfgA"
    /\ cache = "cfgA"
    /\ storeArgs = <<>>

\* C17: storage-layer errors are never suppressed by the bridge. When get
\* succeeds and store, called with its value, raises an exception, that
\* exception leaves try_cache, whether or not catch lists its class or a
\* base class of it.
C17_StoreErrorPropagates ==
    Called /\ call.get.kind = "return" /\ storeArgs # <<>>
           /\ call.store # "ok" =>
        /\ outcome = Raised(call.store, "store")
        /\ storeArgs = <<call.get.value>>
        /\ cache = cachePre

\* store raised an OSError that catch lists by class.
C17_Witness ==
    /\ Called
    /\ call.get.kind = "return"
    /\ storeArgs # <<>>
    /\ call.store = "OSError"
    /\ ~call.catch.isNone
    /\ "OSError" \in call.catch.classes
    /\ outcome = Raised("OSError", "store")

(***************************************************************************)
(* Properties of get_new_posts_for_user (checked under SpecDigest)         *)
(***************************************************************************)

DigestIds == Ids(digest.thread_posts) \cup Ids(digest.post_replies)

\* C4 (dedup invariant): every post returned by both queries appears in
\* post_replies and not in thread_posts, and no post id is in both lists of
\* the returned payload.
C4_Dedup ==
    digest.called =>
        /\ \A id \in Ids(digest.a) \cap Ids(digest.b) :
               /\ id \in Ids(digest.post_replies)
               /\ id \notin Ids(digest.thread_posts)
        /\ Ids(digest.thread_posts) \cap Ids(digest.post_replies) = {}

C4_Witness ==
    /\ digest.called
    /\ "P2" \in Ids(digest.a) \cap Ids(digest.b)
    /\ digest.thread_posts = <<Post("P1")>>
    /\ digest.post_replies = <<Post("P2")>>

\* The scenario of C8: U's only subscription is the thread-level +1 to T,
\* P1 and P2 are stored, no override is stored, and the digest is U's over
\* the window [0, 200).
C8_Scenario ==
    /\ digest.called
    /\ digest.user_id = "U"
    /\ digest.since = 0
    /\ digest.until = 200
    /\ subs["U"] = {[thread_id |-> "T", post_id |-> "null", sub |-> 1]}
    /\ {Post("P1"), Post("P2")} \subseteq posts
    /\ \A w \in Wikis : overrides[w] = {}

InWindowPosts(t) ==
    { p \in posts : p.thread_id = t
                      /\ InWindow(p, digest.since, digest.until) }

\* No override stored for the wiki of thread t matches t.
NoRuleFor(t) ==
    \A rule \in overrides[ThreadInfo(t).wiki_id] : ~RuleMatches(rule, t)

\* C9 as stated: for a user with a thread-level +1 to a thread and a
\* post-level -1 for a post of it, that post is in neither list of the
\* digest and every other post of the thread inside the window is in it.
C9_Original ==
    digest.called =>
        LET ss == subs[digest.user_id] IN
        \A p \in PostUniverse :
            (Has(ss, p.thread_id, "null", 1) /\ Has(ss, p.thread_id, p.id, -1))
            => /\ p.id \notin DigestIds
               /\ \A q \in InWindowPosts(p.thread_id) \ {p} :
                      q.id \in DigestIds

\* C9 (amended): for a user with a thread-level +1 to a thread and a
\* post-level -1 for a post of it, that post is in neither list of the
\* digest; every other post of the thread inside the window is in the
\* digest unless an override stored for the wiki matches the thread, or the
\* user also holds a thread-level -1 for the thread or a post-level -1 for
\* that other post.
C9_UnsubscriptionPrecedence ==
    digest.called =>
        LET ss == subs[digest.user_id] IN
        \A p \in PostUniverse :
            (Has(ss, p.thread_id, "null", 1) /\ Has(ss, p.thread_id, p.id, -1))
            => /\ p.id \notin DigestIds
               /\ \A q \in InWindowPosts(p.thread_id) \ {p} :
                      (/\ NoRuleFor(p.thread_id)
                       /\ ~Has(ss, p.thread_id, "null", -1)
                       /\ ~Has(ss, p.thread_id, q.id, -1))
                      => q.id \in DigestIds

C9_Witness ==
    /\ digest.called
    /\ subs[digest.user_id] =
           {[thread_id |-> "T", post_id |-> "null", sub |-> 1],
            [thread_id |-> "T", post_id |-> "P2", sub |-> -1]}
    /\ InWindowPosts("T") = {Post("P1"), Post("P2")}
    /\ digest.thread_posts = <<Post("P1")>>
    /\ digest.post_replies = <<>>

\* C10 (global override precedence): no post whose thread is matched by a
\* mute or mute_thread rule stored for the thread's wiki is in thread_posts
\* or post_replies, whatever the user's subscriptions.
C10_OverridePrecedence ==
    digest.called =>
        \A p \in PostUniverse :
            (\E rule \in overrides[ThreadInfo(p.thread_id).wiki_id] :
                 /\ rule.action \in {"mute", "mute_thread"}
                 /\ RuleMatches(rule, p.thread_id))
            => p.id \notin DigestIds

C10_Witness ==
    /\ digest.called
    /\ \E rule \in overrides["W"] : rule.thread_title_matches # "null"
    /\ Has(subs[digest.user_id], "T", "null", 1)
    /\ Has(subs[digest.user_id], "T", "P1", 1)
    /\ InWindowPosts("T") = {Post("P1"), Post("P2")}
    /\ DigestIds = {}

\* C11: half-open time window. Every post get_new_posts_for_user returns
\* for the range [since, until), in thread_posts or in post_replies, was
\* posted at a time t with since <= t < until; a post posted at or after
\* until is in neither list.
C11_HalfOpenWindow ==
    digest.called =>
        \A p \in posts :
            p.id \in DigestIds => InWindow(p, digest.since, digest.until)

\* The rows of A, in A's order, without those whose id occurs in B.
RECURSIVE Without(_, _)
Without(A, B) ==
    IF A = <<>> THEN <<>>
    ELSE IF \E j \in DOMAIN B : B[j].id = Head(A).id
         THEN Without(Tail(A), B)
         ELSE <<Head(A)>> \o Without(Tail(A), B)

\* C18: dedup removes nothing else. For the results A and B of the two
\* queries, the returned post_replies is B, same rows in the same order, and
\* the returned thread_posts is the rows of A whose id does not occur in B,
\* in A's order: no other row of A is dropped.
C18_DedupRemovesNothingElse ==
    digest.called =>
        /\ digest.post_replies = digest.b
        /\ digest.thread_posts = Without(digest.a, digest.b)
        /\ \A i \in DOMAIN digest.a :
               digest.a[i].id \notin Ids(digest.b) =>
                   \E k \in DOMAIN digest.thread_posts :
                       digest.thread_posts[k] = digest.a[i]

\* A held P2 before P1 and B held P2: P1 alone is left of A.
C18_Witness ==
    /\ digest.called
    /\ digest.a = <<Post("P2"), Post("P1")>>
    /\ digest.b = <<Post("P2")>>
    /\ digest.thread_posts = <<Post("P1")>>
    /\ digest.post_replies = <<Post("P2")>>

\* A held two rows, none of them in B: both are returned in A's order.
C18_WitnessOrder ==
    /\ digest.called
    /\ digest.a = <<Post("P2"), Post("P1")>>
    /\ digest.b = <<>>
    /\ digest.thread_posts = digest.a

(***************************************************************************)
(* Properties of the task firings (checked under SpecSched)                *)
(***************************************************************************)

Fired == fired # "none"

EventsOf(op, u) ==
    { k \in DOMAIN events : events[k].op = op /\ events[k].user_id = u }

C6_RecordAfterDelivery ==
    Fired =>
        /\ \A i \in DOMAIN events :
               events[i].op = "store_user_last_notified" =>
                   \E j \in 1..(i - 1) :
                       /\ events[j].op = "deliver"
                       /\ events[j].user_id = events[i].user_id
                       /\ events[j].ok
        /\ \A u \in Users :
               LET successes == { k \in EventsOf("deliver", u) : events[k].ok }
               IN /\ Cardinality(EventsOf("store_user_last_notified", u))
                         = Cardinality(successes)
                  /\ lastNotified[u] # lastPre[u] => successes # {}

C6_Witness ==
    /\ fired = "hourly"
    /\ Len(loaded) = 2
    /\ \E i \in DOMAIN events :
           /\ events[i].op = "deliver" /\ events[i].ok
           /\ events[i + 1].op = "store_user_last_notified"
           /\ events[i + 1].user_id = events[i].user_id
           /\ lastNotified[events[i].user_id] = events[i + 1].ts
           /\ lastPre[events[i].user_id] < events[i + 1].ts
    /\ \E i \in DOMAIN events : events[i].op = "deliver" /\ ~events[i].ok

\* The posts of the digest the last firing computed for the user.
DigestOf(u) == UNION { events[k].ids : k \in EventsOf("digest", u) }

PositionOf(u) == CHOOSE m \in DOMAIN loaded : loaded[m] = u

\* A failed delivery does not stop the loop, and leaves the user's stored
\* time alone.
C7_Isolation ==
    \A i \in DOMAIN events :
        (events[i].op = "deliver" /\ ~events[i].ok) =>
            /\ \A n \in DOMAIN loaded :
                   n > PositionOf(events[i].user_id) =>
                       \E k \in EventsOf("digest", loaded[n]) : k > i
            /\ lastNotified[events[i].user_id] = lastPre[events[i].user_id]

\* C7 as stated: a failed delivery does not stop the loop and does not
\* advance the user's time, and the posts of the failed digest are part of
\* the user's digest at the next firing of the same cadence.
C7_Original ==
    Fired => /\ C7_Isolation
             /\ \A u \in Users : due[u].ids \subseteq DigestOf(u)

\* C7 (amended): a failed delivery does not stop the loop and does not
\* advance the user's time, and the posts of the failed digest are part of
\* the user's digest at the next firing of the same cadence when the user
\* is still on that cadence with the same subscriptions and base time and
\* the global overrides are the same as at the failed firing.
C7_FailureIsolationAndRetry ==
    Fired => /\ C7_Isolation
             /\ \A u \in Users :
                    (/\ frequency[u] = fired
                     /\ base[u] = due[u].base
                     /\ subs[u] = due[u].subs
                     /\ overrides = due[u].overrides)
                    => due[u].ids \subseteq DigestOf(u)

C7_Witness ==
    /\ fired = "hourly"
    /\ loaded = <<"U", "V">>
    /\ due["U"].ids = {"P1"}
    /\ DigestOf("U") = {"P1", "P2"}
    /\ \E i \in EventsOf("deliver", "U") : ~events[i].ok
    /\ \E i \in EventsOf("deliver", "V") : events[i].ok
    /\ lastNotified["U"] = -1
    /\ lastNotified["V"] = 150

(***************************************************************************)
(* Properties of the query cache (checked under SpecQueries)               *)
(***************************************************************************)

Lookup(n) == lastQuery.op = "lookup" /\ lastQuery.query_name = n

\* C12 as stated: for any name, two lookups of the name with no clear
\* between them perform exactly one read of the resource store and leave
\* the same cached definition.
C12_Original ==
    \A n \in QueryNames :
        lookups[n] >= 2 => reads[n] = 1 /\ query_cache[n] = firstDef[n]

\* C12: query cache idempotence. For any name whose first lookup since the
\* last clear found a matching file, that lookup and the later lookups of the
\* name before the next clear perform exactly one read of the resource store
\* between them, and all leave the identical cached definition (same script
\* flag, same text), whatever was edited in the directory meanwhile.
C12_QueryCacheIdempotence ==
    \A n \in QueryNames :
        lookups[n] >= 2 /\ firstDef[n].cached =>
            reads[n] = 1 /\ query_cache[n] = firstDef[n]

\* Two lookups of q, the file rewritten and a script file created between
\* them: the cache still holds the text the first one read.
C12_Witness ==
    /\ Lookup("q")
    /\ lookups["q"] = 2
    /\ reads["q"] = 1
    /\ query_cache["q"] = Entry(<<"q", "sql">>, "v1")
    /\ builtin_queries_dir[<<"q", "sql">>] = "v2"
    /\ builtin_queries_dir[<<"q", "script", "sql">>] = "v1"

\* C13: invalidation picks up edits. The first lookup of a name after
\* clear_query_file_cache reads the resource store again, and the definition
\* it leaves is the content of a matching file as it is then, with every
\* edit made before the clear, not the definition cached before.
C13_InvalidationPicksUpEdits ==
    \A n \in QueryNames :
        Lookup(n) /\ lastQuery.first =>
            /\ lastQuery.read
            /\ lastQuery.raised = "none" =>
                   \E path \in Matching(lastQuery.dir, n) :
                       query_cache[n] = Entry(path, lastQuery.dir[path])

\* q was cached as v1, the file was rewritten to v2, the cache was cleared,
\* and the next lookup of q left v2.
C13_Witness ==
    /\ Lookup("q")
    /\ lastQuery.first
    /\ cleared.cache["q"] = Entry(<<"q", "sql">>, "v1")
    /\ cleared.dir[<<"q", "sql">>] = "v2"
    /\ cleared.dir = builtin_queries_dir
    /\ query_cache["q"] = Entry(<<"q", "sql">>, "v2")

\* No file of the directory has the base name n.
NoFileNamed(dir, n) ==
    \A path \in QueryFiles : dir[path] # "absent" => Head(path) # n

\* C19 as stated: every lookup of a name no file of the directory is named
\* after fails with ValueError and leaves the cache as it was.
C19_Original ==
    \A n \in QueryNames :
        Lookup(n) /\ NoFileNamed(lastQuery.dir, n) =>
            lastQuery.raised = "ValueError" /\ query_cache = lastQuery.pre

\* C19: missing query resource. A lookup of a name that is not in the cache
\* and that no file of the directory is named after fails with ValueError
\* and leaves the cache as it was: no entry for the name, the other entries
\* unchanged.
C19_MissingQueryResource ==
    \A n \in QueryNames :
        Lookup(n) /\ NoFileNamed(lastQuery.dir, n)
                  /\ ~InCache(lastQuery.pre, n) =>
            /\ lastQuery.raised = "ValueError"
            /\ query_cache = lastQuery.pre
            /\ ~InCache(query_cache, n)

\* A lookup of r failed while q was cached and q's file was there.
C19_Witness ==
    /\ Lookup("r")
    /\ lastQuery.raised = "ValueError"
    /\ NoFileNamed(lastQuery.dir, "r")
    /\ InCache(query_cache, "q")
    /\ ~NoFileNamed(lastQuery.dir, "q")

(***************************************************************************)
(* Properties of the query cache under concurrent callers (checked under   *)
(* SpecInFlight)                                                           *)
(***************************************************************************)

Loaded(t) == firings[t].pc \in {"digest", "deliver", "record", "done"}

UsersLoaded(t) == { firings[t].users[k] : k \in DOMAIN firings[t].users }

\* C15: firings of different cadences that coincide. A firing that has
\* started and is not over can always take its next step, whatever the other
\* firing is doing; the users the two firings loaded with get_user_configs
\* are disjoint; and no post is delivered to the same user by both firings.
C15_CoincidingFirings ==
    /\ \A t \in Coinciding :
           firings[t].pc \notin {"idle", "done"} =>
               ENABLED (RefreshPosts(t) \/ RefreshConfigs(t) \/ LoadUsers(t)
                        \/ ComputeDigest(t) \/ Deliver(t)
                        \/ RecordLastNotified(t))
    /\ Loaded("hourly") /\ Loaded("daily") =>
           UsersLoaded("hourly") \cap UsersLoaded("daily") = {}
    /\ \A u \in Users, p \in PostUniverse :
           ~(<<"hourly", u, p.id>> \in deliveries
                 /\ <<"daily", u, p.id>> \in deliveries)

\* The first part of C15 alone: no firing is ever stuck.
C15_NoFiringStuck ==
    \A t \in Coinciding :
        firings[t].pc \notin {"idle", "done"} =>
            ENABLED (RefreshPosts(t) \/ RefreshConfigs(t) \/ LoadUsers(t)
                     \/ ComputeDigest(t) \/ Deliver(t)
                     \/ RecordLastNotified(t))

(***************************************************************************)
(* Refresh placement (checked under SpecSched)                             *)
(***************************************************************************)

Calls(op) == { k \in DOMAIN events : events[k].op = op }

\* C16: refresh placement. In every Hourly firing get_new_posts() is called,
\* once, and is over before get_users() loads the users; a Daily, Weekly or
\* Monthly firing never calls get_new_posts(): it loads the users and reads
\* the posts that are stored.
C16_RefreshPlacement ==
    Fired =>
        /\ Cardinality(Calls("get_users")) = 1
        /\ fired = "hourly" =>
               /\ Cardinality(Calls("get_new_posts")) = 1
               /\ \A k \in Calls("get_new_posts"), m \in Calls("get_users") :
                      k < m
        /\ fired \in {"daily", "weekly", "monthly"} =>
               Calls("get_new_posts") = {}
        /\ \A k \in DOMAIN events :
               events[k].op \in {"digest", "deliver",
                                 "store_user_last_notified"} =>
                   \A m \in Calls("get_new_posts") \cup Calls("get_users") :
                       m < k

\* A Daily firing delivered a digest of stored posts to a user without any
\* refresh of the posts.
C16_Witness ==
    /\ fired = "daily"
    /\ Calls("get_new_posts") = {}
    /\ \E k \in Calls("deliver") : events[k].ok /\ events[k].ids # {}

\* An Hourly firing whose refresh stored new posts that the digest it then
\* delivered holds.
C16_WitnessHourly ==
    /\ fired = "hourly"
    /\ \E k \in Calls("get_new_posts"), m \in Calls("deliver") :
           events[k].ids # {} /\ events[m].ids \subseteq events[k].ids
                              /\ events[m].ids # {}

====
